---- MODULE Spec2Model ----
(***************************************************************************)
(* A model of the SOP generation pipeline (src/pipeline.py) and of the     *)
(* "Generate SOP" button handler (src/app.py).                             *)
(*                                                                         *)
(* Texts are TLA+ strings; a character is a string of length one.  The     *)
(* regular expression of process_sop_content, Python's str.split and int,  *)
(* and the stable list.sort are written out as operators over them.        *)
(***************************************************************************)
EXTENDS Integers, Sequences, FiniteSets, TLC

VARIABLES
    \* process_sop_content run once, then once more on its own output
    text, video, out1, out2, apc,
    \* time_str_to_seconds
    tsIn, tsRes, ppc,
    \* get_available_models
    provModels, listFails, modelsRes, mpc,
    \* wait_for_files_active and the provider's file store
    files, provState, wIdx, lastState, wpc, nPolls, seenActive,
    \* one "Generate SOP" request: the handler of app.py running generate_sop
    rpc, reqImage, reqText, tmpFiles, uploaded, steps, promptParts, modelCalls, doc,
    failedStep

annotVars == <<text, video, out1, out2, apc>>
parseVars == <<tsIn, tsRes, ppc>>
modelVars == <<provModels, listFails, modelsRes, mpc>>
waitVars == <<files, provState, wIdx, lastState, wpc, nPolls, seenActive>>
reqVars == <<rpc, reqImage, reqText, tmpFiles, uploaded, steps, promptParts, modelCalls,
             doc, failedStep>>
vars == <<annotVars, parseVars, modelVars, waitVars, reqVars>>

(***************************************************************************)
(* Strings                                                                 *)
(***************************************************************************)

\* s[i] of Python, 1-based; "" outside the string
CharAt(s, i) == IF i >= 1 /\ i <= Len(s) THEN SubSeq(s, i, i) ELSE ""

\* s[i-1 : i-1+n] of Python: a slice that stops at the end of the string
Slice(s, i, n) ==
    IF i > Len(s) \/ n <= 0 THEN ""
    ELSE SubSeq(s, i, IF i + n - 1 <= Len(s) THEN i + n - 1 ELSE Len(s))

\* s[i-1:] of Python
Rest(s, i) == Slice(s, i, Len(s))

\* (sub in s) of Python
Contains(sub, s) ==
    \E i \in 1..(Len(s) - Len(sub) + 1) : Slice(s, i, Len(sub)) = sub

\* The characters of a text are the ASCII ones, U+0001 to U+007F: a string of this
\* module holds no other character whatever the encoding the module is read in. Among
\* them \d of a str pattern matches 0 to 9, and int() reads the same ten.
Digits == {"0", "1", "2", "3", "4", "5", "6", "7", "8", "9"}

\* the ASCII characters \s of a str pattern matches: space, \t, \n, \r, \f, the
\* vertical tab (U+000B) and the separators U+001C to U+001F
Whitespace ==
    {" ", "\t", "\n", "\r", "\f", "",
     "", "", "", ""}

\* the ASCII characters int() drops around a number: those of \s but U+001C to U+001F
IntWhitespace == Whitespace \ {"", "", "", ""}

DigitVal(c) ==
    CASE c = "0" -> 0 [] c = "1" -> 1 [] c = "2" -> 2 [] c = "3" -> 3
      [] c = "4" -> 4 [] c = "5" -> 5 [] c = "6" -> 6 [] c = "7" -> 7
      [] c = "8" -> 8 [] c = "9" -> 9

(***************************************************************************)
(* time_str_to_seconds                                                     *)
(***************************************************************************)

RECURSIVE SplitFrom(_, _, _, _)
\* the fields of s from position i on, cur being the field read so far
SplitFrom(s, sep, i, cur) ==
    IF i > Len(s) THEN <<cur>>
    ELSE IF CharAt(s, i) = sep THEN <<cur>> \o SplitFrom(s, sep, i + 1, "")
    ELSE SplitFrom(s, sep, i + 1, cur \o CharAt(s, i))

\* s.split(sep) for a one-character separator: "" splits into one empty field
Split(s, sep) == SplitFrom(s, sep, 1, "")

RECURSIVE StripLeft(_)
StripLeft(s) ==
    IF Len(s) > 0 /\ CharAt(s, 1) \in IntWhitespace THEN StripLeft(Rest(s, 2)) ELSE s

RECURSIVE StripRight(_)
StripRight(s) ==
    IF Len(s) > 0 /\ CharAt(s, Len(s)) \in IntWhitespace
    THEN StripRight(Slice(s, 1, Len(s) - 1)) ELSE s

\* the digits of an integer literal: decimal digits, with single underscores allowed
\* between two of them
DigitsWithUnderscores(s) ==
    /\ Len(s) > 0
    /\ CharAt(s, 1) \in Digits
    /\ CharAt(s, Len(s)) \in Digits
    /\ \A i \in 1..Len(s) : CharAt(s, i) \in Digits \cup {"_"}
    /\ \A i \in 1..(Len(s) - 1) : ~(CharAt(s, i) = "_" /\ CharAt(s, i + 1) = "_")

RECURSIVE DecimalValue(_)
\* the number the digits of s write in base ten, the underscores between them skipped
DecimalValue(s) ==
    IF Len(s) = 0 THEN 0
    ELSE IF CharAt(s, Len(s)) = "_" THEN DecimalValue(Slice(s, 1, Len(s) - 1))
    ELSE 10 * DecimalValue(Slice(s, 1, Len(s) - 1)) + DigitVal(CharAt(s, Len(s)))

\* int(field): surrounding whitespace is dropped, one sign is accepted, the rest
\* must be decimal digits (single underscores may separate them); anything else
\* raises ValueError
ParseInt(field) ==
    LET s == StripRight(StripLeft(field))
        signed == Len(s) > 0 /\ CharAt(s, 1) \in {"+", "-"}
        body == IF signed THEN Rest(s, 2) ELSE s
    IN  IF ~DigitsWithUnderscores(body) THEN [ok |-> FALSE, val |-> 0]
        ELSE [ok |-> TRUE,
              val |-> IF signed /\ CharAt(s, 1) = "-" THEN 0 - DecimalValue(body)
                      ELSE DecimalValue(body)]

\* time_str_to_seconds: [raised |-> FALSE, val |-> seconds], or raised with ValueError
\* when map(int, ...) meets a field int() rejects
time_str_to_seconds(time_str) ==
    LET fields == Split(time_str, ":")
        parts == [i \in 1..Len(fields) |-> ParseInt(fields[i])]
    IN  IF \E i \in 1..Len(parts) : ~parts[i].ok
        THEN [raised |-> TRUE, val |-> 0]
        ELSE IF Len(parts) = 2
        THEN [raised |-> FALSE, val |-> parts[1].val * 60 + parts[2].val]
        ELSE IF Len(parts) = 3
        THEN [raised |-> FALSE,
              val |-> parts[1].val * 3600 + parts[2].val * 60 + parts[3].val]
        ELSE [raised |-> FALSE, val |-> 0]

(***************************************************************************)
(* extract_frame_base64                                                    *)
(***************************************************************************)

\* A video file as OpenCV sees it: whether VideoCapture opens it, and how many whole
\* seconds of frames it holds (a read after seeking to or past the end returns no frame).
Videos == {[opens |-> FALSE, duration |-> 10],
           [opens |-> TRUE, duration |-> 10],
           [opens |-> TRUE, duration |-> 4000]}

\* cap.isOpened() and, after cap.set(CAP_PROP_POS_MSEC, seconds * 1000), ret of cap.read()
FrameDecodes(v, seconds) == v.opens /\ seconds >= 0 /\ seconds < v.duration

\* base64.b64encode(buffer).decode('utf-8') of the JPEG of the frame at that second: text
\* over the base64 alphabet, one per frame (a JPEG's first bytes encode as "/9j/")
FrameBase64(seconds) == "/9j/" \o ToString(seconds) \o "=="

\* None is the empty string (both are false in the test of image_data)
extract_frame_base64(v, seconds) ==
    IF ~v.opens THEN ""
    ELSE IF ~FrameDecodes(v, seconds) THEN ""
    ELSE "data:image/jpeg;base64," \o FrameBase64(seconds)

(***************************************************************************)
(* process_sop_content                                                     *)
(***************************************************************************)

TagOpen == "[TIMESTAMP:"

RECURSIVE SkipWhitespace(_, _)
\* the position after the longest run of whitespace that starts at i
SkipWhitespace(s, i) ==
    IF CharAt(s, i) \in Whitespace THEN SkipWhitespace(s, i + 1) ELSE i

\* \d{1,2}:\d{2} at position k: the length matched (4 or 5), 0 when it does not match
TimeGroupLen(s, k) ==
    LET two == CharAt(s, k) \in Digits /\ CharAt(s, k + 1) \in Digits
        one == CharAt(s, k) \in Digits
        n == IF two /\ CharAt(s, k + 2) = ":" THEN 2
             ELSE IF one /\ CharAt(s, k + 1) = ":" THEN 1 ELSE 0
    IN  IF n > 0 /\ CharAt(s, k + n + 1) \in Digits /\ CharAt(s, k + n + 2) \in Digits
        THEN n + 3 ELSE 0

\* pattern.match at position i, pattern = \[TIMESTAMP:\s*(\d{1,2}:\d{2})\] :
\* len is the length of match.group(0) (0: no match), time_str is match.group(1)
MatchAt(s, i) ==
    LET k == SkipWhitespace(s, i + Len(TagOpen))
        g == TimeGroupLen(s, k)
    IN  IF Slice(s, i, Len(TagOpen)) = TagOpen /\ g > 0 /\ CharAt(s, k + g) = "]"
        THEN [len |-> k + g + 1 - i, time_str |-> Slice(s, k, g)]
        ELSE [len |-> 0, time_str |-> ""]

\* ImageRef with the tag itself as the image's label
ImageRef_TagAsLabel(time_str, image_data) ==
    "\n![TIMESTAMP: " \o time_str \o "](" \o image_data \o ")\n"

\* the f-string replace_match returns when a frame was extracted
ImageRef(time_str, image_data) ==
    "\n![Snapshot at " \o time_str \o "](" \o image_data \o ")\n"

\* replace_match returning nothing for a tag whose frame was not extracted
replace_match_Drop(tag, time_str, v) ==
    LET seconds == time_str_to_seconds(time_str).val
        image_data == extract_frame_base64(v, seconds)
    IN  IF image_data # "" THEN ImageRef(time_str, image_data) ELSE ""

\* replace_match(match): tag is match.group(0)
replace_match(tag, time_str, v) ==
    LET seconds == time_str_to_seconds(time_str).val
        image_data == extract_frame_base64(v, seconds)
    IN  IF image_data # "" THEN ImageRef(time_str, image_data) ELSE tag

\* the least number of a non-empty set of numbers
Least(S) == CHOOSE x \in S : \A y \in S : x <= y

\* pattern.search from position i: the start of the leftmost match at or after i, 0 when
\* there is none
SearchFrom(s, i) ==
    LET starts == {j \in i..Len(s) : MatchAt(s, j).len > 0}
    IN  IF starts = {} THEN 0 ELSE Least(starts)

RECURSIVE SubFrom(_, _, _)
\* pattern.sub(replace_match, s) from position i on: the text up to the leftmost match
\* is copied, the match is replaced, and the scan goes on after it; what follows the
\* last match is copied
SubFrom(s, i, v) ==
    LET j == SearchFrom(s, i)
        m == MatchAt(s, j)
    IN  IF j = 0 THEN Rest(s, i)
        ELSE Slice(s, i, j - i) \o replace_match(Slice(s, j, m.len), m.time_str, v)
             \o SubFrom(s, j + m.len, v)

process_sop_content(s, v) == SubFrom(s, 1, v)

\* Document texts: up to MaxFrags fragments, one after the other
MaxFrags == 3

\* (the last one has a vertical tab and a unit separator, U+001F, before its time)
Fragments == {"Step 1 ", " done", "[TIMESTAMP: 00:05]", "[TIMESTAMP:1:30]",
              "[TIMESTAMP: 01:02:03]", "[TIMESTAMP:", " 00:05]", "[TIMESTAMP: 5:3]",
              "[TIMESTAMP:00:07]"}

RECURSIVE Concat(_)
Concat(seq) == IF seq = <<>> THEN "" ELSE Head(seq) \o Concat(Tail(seq))

Texts == {Concat(fs) : fs \in UNION {[1..n -> Fragments] : n \in 0..MaxFrags}}

AnnotIdle == text = "" /\ video = [opens |-> FALSE, duration |-> 10]
             /\ out1 = "" /\ out2 = "" /\ apc = "off"

AnnotInit == text \in Texts /\ video \in Videos /\ out1 = "" /\ out2 = "" /\ apc = "start"

\* final_markdown = process_sop_content(response.text, video_path)
Annotate ==
    /\ apc = "start"
    /\ out1' = process_sop_content(text, video)
    /\ apc' = "done"
    /\ UNCHANGED <<text, video, out2, parseVars, modelVars, waitVars, reqVars>>

\* process_sop_content applied to its own result, with the same video
AnnotateAgain ==
    /\ apc = "done"
    /\ out2' = process_sop_content(out1, video)
    /\ apc' = "done2"
    /\ UNCHANGED <<text, video, out1, parseVars, modelVars, waitVars, reqVars>>

ParseIdle == tsIn = [shape |-> "none", h |-> 0, m |-> 0, s |-> 0, str |-> ""]
             /\ tsRes = [raised |-> FALSE, val |-> 0] /\ ppc = "off"

ModelsIdle == provModels = <<>> /\ listFails = FALSE /\ modelsRes = <<>> /\ mpc = "off"

WaitIdle == files = <<>> /\ provState = <<>> /\ wIdx = 0 /\ lastState = <<>>
            /\ wpc = "off" /\ nPolls = 0 /\ seenActive = {}

ReqIdle == rpc = "off" /\ reqImage = FALSE /\ reqText = "" /\ tmpFiles = {} /\ uploaded = {}
           /\ steps = <<>> /\ promptParts = <<>> /\ modelCalls = 0 /\ doc = ""
           /\ failedStep = ""

InitAnnotate == AnnotInit /\ ParseIdle /\ ModelsIdle /\ WaitIdle /\ ReqIdle

NextAnnotate == Annotate \/ AnnotateAgain

SpecAnnotate == InitAnnotate /\ [][NextAnnotate]_vars

(***************************************************************************)
(* Reading a document back: its tags and its image references              *)
(***************************************************************************)

\* the first position >= i of character c in s, 0 when there is none
IndexOf(s, c, i) ==
    LET at == {j \in i..Len(s) : CharAt(s, j) = c}
    IN  IF at = {} THEN 0 ELSE Least(at)

RefOpen == "\n![Snapshot at "

\* an inline image reference "\n![Snapshot at T](D)\n" at position i: its length (0 when
\* there is none), its label T and its source D
RefAt(s, i) ==
    LET j == IndexOf(s, "]", i + Len(RefOpen))
        k == IF j = 0 THEN 0 ELSE IndexOf(s, ")", j + 2)
    IN  IF Slice(s, i, Len(RefOpen)) = RefOpen /\ j > 0 /\ CharAt(s, j + 1) = "("
           /\ k > 0 /\ CharAt(s, k + 1) = "\n"
        THEN [len |-> k + 2 - i,
              time_str |-> Slice(s, i + Len(RefOpen), j - i - Len(RefOpen)),
              data |-> Slice(s, j + 2, k - j - 2)]
        ELSE [len |-> 0, time_str |-> "", data |-> ""]

\* the seconds a tag's MM:SS stands for
TagSeconds(time_str) ==
    LET c == IndexOf(time_str, ":", 1)
    IN  DecimalValue(Slice(time_str, 1, c - 1)) * 60 + DecimalValue(Rest(time_str, c + 1))

\* the start of the first tag or image reference of s at or after position i, 0 when
\* there is none
NextMarker(s, i) ==
    LET starts == {j \in i..Len(s) : MatchAt(s, j).len > 0 \/ RefAt(s, j).len > 0}
    IN  IF starts = {} THEN 0 ELSE Least(starts)

\* the length of the tag or image reference that starts at position j
MarkerLen(s, j) == IF MatchAt(s, j).len > 0 THEN MatchAt(s, j).len ELSE RefAt(s, j).len

RECURSIVE Markers(_, _)
\* the tags and image references of s from position i on, in order: each with its
\* kind, the verbatim tag (a tag), the label and the image source (a reference)
Markers(s, i) ==
    LET j == NextMarker(s, i)
        m == MatchAt(s, j)
        r == RefAt(s, j)
    IN  IF j = 0 THEN <<>>
        ELSE <<IF m.len > 0
               THEN [kind |-> "tag", raw |-> Slice(s, j, m.len), time_str |-> m.time_str,
                     data |-> ""]
               ELSE [kind |-> "ref", raw |-> "", time_str |-> r.time_str, data |-> r.data]>>
             \o Markers(s, j + MarkerLen(s, j))

RECURSIVE Outside(_, _)
\* s from position i on with every tag and every image reference replaced by "<>"
Outside(s, i) ==
    LET j == NextMarker(s, i)
    IN  IF j = 0 THEN Rest(s, i)
        ELSE Slice(s, i, j - i) \o "<>" \o Outside(s, j + MarkerLen(s, j))

\* C1: when process_sop_content has run, the output holds, in the input's order and at
\* the input's positions, one marker per input tag and nothing else new: the text outside
\* the markers is the input's, the k-th marker is the image reference of the k-th tag
\* (its label the tag's time, its source the frame at that second) when that frame can
\* be extracted and the k-th tag verbatim when it cannot, whatever happened to the tags
\* before it; a text without tags comes back unchanged.
C1_EveryTagOnceInPlace ==
    apc \in {"done", "done2"} =>
        LET tags == Markers(text, 1)
            marks == Markers(out1, 1)
        IN  /\ Outside(out1, 1) = Outside(text, 1)
            /\ Len(marks) = Len(tags)
            /\ \A k \in 1..Len(tags) :
                  IF FrameDecodes(video, TagSeconds(tags[k].time_str))
                  THEN /\ marks[k].kind = "ref"
                       /\ marks[k].time_str = tags[k].time_str
                       /\ marks[k].data = "data:image/jpeg;base64,"
                                            \o FrameBase64(TagSeconds(tags[k].time_str))
                  ELSE marks[k] = tags[k]
            /\ (tags = <<>> => out1 = text)

\* C1 witness: a tag whose frame cannot be extracted was left verbatim and the tag after
\* it was replaced by its image reference
C1_Witness ==
    /\ apc = "done"
    /\ LET marks == Markers(out1, 1)
       IN  /\ Len(marks) >= 2
           /\ marks[1].kind = "tag"
           /\ marks[2].kind = "ref"
    /\ out1 # text

\* [TIMESTAMP: HH:MM:SS] at position i, the three-field shape of the tag grammar
\* \[TIMESTAMP:\s*\d{1,2}:\d{2}:\d{2}\] : its length (0: none), its time and its seconds
LongTagAt(s, i) ==
    LET k == SkipWhitespace(s, i + Len(TagOpen))
        g == TimeGroupLen(s, k)
        ok == /\ Slice(s, i, Len(TagOpen)) = TagOpen /\ g > 0
              /\ CharAt(s, k + g) = ":"
              /\ CharAt(s, k + g + 1) \in Digits /\ CharAt(s, k + g + 2) \in Digits
              /\ CharAt(s, k + g + 3) = "]"
        t == Slice(s, k, g + 3)
    IN  IF ok
        THEN [len |-> k + g + 4 - i, time_str |-> t,
              seconds |-> DecimalValue(Slice(t, 1, g - 3)) * 3600
                            + DecimalValue(Slice(t, g - 1, 2)) * 60
                            + DecimalValue(Slice(t, g + 2, 2))]
        ELSE [len |-> 0, time_str |-> "", seconds |-> 0]

\* C2: a tag [TIMESTAMP: HH:MM:SS] whose frame at HH*3600+MM*60+SS seconds decodes is
\* replaced by the image reference labelled with its time, as a [TIMESTAMP: MM:SS] is.
C2_LongTagReplaced ==
    apc \in {"done", "done2"} =>
        \A i \in 1..Len(text) :
            LET t == LongTagAt(text, i)
            IN  (t.len > 0 /\ FrameDecodes(video, t.seconds)) =>
                    /\ Contains(RefOpen \o t.time_str \o "](", out1)
                    /\ ~Contains(Slice(text, i, t.len), out1)

\* every tag of the text has a frame that can be extracted from the video
AllTagsDecode(s, v) ==
    \A k \in 1..Len(Markers(s, 1)) : FrameDecodes(v, TagSeconds(Markers(s, 1)[k].time_str))

\* C10: when every tag of the document was replaced in the first pass, the output holds
\* no tag (an image reference is not one, nor makes one with the text around it) and
\* process_sop_content applied to it with the same video returns it unchanged.
C10_SecondPassNoOp ==
    (apc = "done2" /\ AllTagsDecode(text, video)) =>
        /\ \A k \in 1..Len(Markers(out1, 1)) : Markers(out1, 1)[k].kind = "ref"
        /\ out2 = out1

\* C10 witness: a document with at least two tags, all replaced, went through the
\* second pass
C10_Witness ==
    /\ apc = "done2"
    /\ Len(Markers(text, 1)) >= 2
    /\ AllTagsDecode(text, video)
    /\ out1 # text
    /\ out2 = out1

(***************************************************************************)
(* time_str_to_seconds on its own                                          *)
(***************************************************************************)

\* field values 0..MaxField, and the 30 and 59 of a clock
MaxField == 5

FieldValues == 0..MaxField \cup {30, 59}

\* a number as MM:SS writes it: two digits, or as few as it takes
Fmt(n, pad) == IF pad /\ n < 10 THEN "0" \o ToString(n) ELSE ToString(n)

\* strings that are neither "m:s" nor "h:m:s"
OtherShapes == {"", "5", "abc", "1:2:3:4", "0:1:2:3:4", "12.5", "a:b:c:d",
                "1__0:05", "_1:05", "1_:05", "1:30", "1:30"}

\* "m:s" and "h:m:s" as int() also reads them: underscores between digits, a sign,
\* whitespace (a vertical tab, a form feed) around a field
OtherWritings ==
    {[shape |-> "ms", h |-> 0, m |-> 10, s |-> 5, str |-> "1_0:05"],
     [shape |-> "ms", h |-> 0, m |-> 0, s |-> 5, str |-> "0:0_5"],
     [shape |-> "hms", h |-> 1, m |-> 20, s |-> 3, str |-> "1:2_0:3"],
     [shape |-> "ms", h |-> 0, m |-> 1, s |-> 30, str |-> "1:30"],
     [shape |-> "ms", h |-> 0, m |-> 1, s |-> 30, str |-> " 1:\f+30\n"],
     [shape |-> "hms", h |-> 1000, m |-> 0, s |-> 0, str |-> "1_0_0_0:00:00"]}

ParseInputs ==
    {[shape |-> "ms", h |-> 0, m |-> m, s |-> s, str |-> Fmt(m, p) \o ":" \o Fmt(s, p)] :
        m \in FieldValues, s \in FieldValues, p \in BOOLEAN}
    \cup
    {[shape |-> "hms", h |-> x[1], m |-> x[2], s |-> x[3],
      str |-> Fmt(x[1], p) \o ":" \o Fmt(x[2], p) \o ":" \o Fmt(x[3], p)] :
        x \in FieldValues \X FieldValues \X FieldValues, p \in BOOLEAN}
    \cup
    {[shape |-> "other", h |-> 0, m |-> 0, s |-> 0, str |-> o] : o \in OtherShapes}
    \cup
    OtherWritings

ParseInit == tsIn \in ParseInputs /\ tsRes = [raised |-> FALSE, val |-> 0] /\ ppc = "start"

\* a call of time_str_to_seconds(tsIn.str)
Convert ==
    /\ ppc = "start"
    /\ tsRes' = time_str_to_seconds(tsIn.str)
    /\ ppc' = "done"
    /\ UNCHANGED <<tsIn, annotVars, modelVars, waitVars, reqVars>>

InitParse == AnnotIdle /\ ParseInit /\ ModelsIdle /\ WaitIdle /\ ReqIdle

NextParse == Convert

SpecParse == InitParse /\ [][NextParse]_vars

\* C8: time_str_to_seconds returns m*60+s for "m:s", h*3600+m*60+s for "h:m:s", and for
\* a string of any other shape it returns 0 and does not raise.
C8_SecondsOrZero ==
    ppc = "done" =>
        /\ ~tsRes.raised
        /\ tsIn.shape = "ms" => tsRes.val = tsIn.m * 60 + tsIn.s
        /\ tsIn.shape = "hms" => tsRes.val = tsIn.h * 3600 + tsIn.m * 60 + tsIn.s
        /\ tsIn.shape = "other" => tsRes.val = 0

(***************************************************************************)
(* get_available_models                                                    *)
(***************************************************************************)

\* the models genai.list_models() can return: a name and its supported_generation_methods
ProviderModels ==
    {[name |-> "models/gemini-1.5-flash", methods |-> {"generateContent", "countTokens"}],
     [name |-> "models/gemini-1.5-pro", methods |-> {"generateContent", "countTokens"}],
     [name |-> "models/other-model", methods |-> {"generateContent"}],
     [name |-> "models/gemini-1.5-pro-latest", methods |-> {"generateContent"}],
     [name |-> "models/embedding-001", methods |-> {"embedContent"}],
     [name |-> "models/gemini-1.5-pro-embed", methods |-> {"embedContent"}],
     [name |-> "tunedModels/gemini-1.5-flash-from-gemini-1.5-pro",
      methods |-> {"generateContent"}]}

\* how many models the provider lists
MaxModels == 3

\* the key of models.sort
SortKey(x) ==
    IF Contains("gemini-1.5-pro", x) THEN 0
    ELSE IF Contains("gemini-1.5-flash", x) THEN 1
    ELSE 2

RECURSIVE InsertBeforeEqual(_, _)
\* an insertion that puts x before the elements whose key equals its own
InsertBeforeEqual(sorted, x) ==
    IF sorted = <<>> THEN <<x>>
    ELSE IF SortKey(x) <= SortKey(Head(sorted)) THEN <<x>> \o sorted
    ELSE <<Head(sorted)>> \o InsertBeforeEqual(Tail(sorted), x)

RECURSIVE InsertStable(_, _)
\* x put into the sorted list after every element whose key is not greater than its own
InsertStable(sorted, x) ==
    IF sorted = <<>> THEN <<x>>
    ELSE IF SortKey(x) < SortKey(Head(sorted)) THEN <<x>> \o sorted
    ELSE <<Head(sorted)>> \o InsertStable(Tail(sorted), x)

RECURSIVE SortFrom(_, _, _)
\* list.sort(key=SortKey): the elements are inserted one by one, left to right, each
\* after its equals (Python's sort is stable)
SortFrom(s, i, sorted) ==
    IF i > Len(s) THEN sorted ELSE SortFrom(s, i + 1, InsertStable(sorted, s[i]))

RECURSIVE AppendCapable(_, _)
\* the for loop: m.name of each model listing 'generateContent', in the provider's order
AppendCapable(ms, i) ==
    IF i > Len(ms) THEN <<>>
    ELSE (IF "generateContent" \in ms[i].methods THEN <<ms[i].name>> ELSE <<>>)
         \o AppendCapable(ms, i + 1)

\* get_available_models(): [] when genai.list_models() raises
get_available_models(ms, fails) ==
    IF fails THEN <<>> ELSE SortFrom(AppendCapable(ms, 1), 1, <<>>)

ModelsInit ==
    /\ provModels \in UNION {[1..n -> ProviderModels] : n \in 0..MaxModels}
    /\ listFails \in BOOLEAN
    /\ modelsRes = <<>>
    /\ mpc = "start"

\* available_models = get_available_models()
ListModels ==
    /\ mpc = "start"
    /\ modelsRes' = get_available_models(provModels, listFails)
    /\ mpc' = "done"
    /\ UNCHANGED <<provModels, listFails, annotVars, parseVars, waitVars, reqVars>>

InitModels == AnnotIdle /\ ParseIdle /\ ModelsInit /\ WaitIdle /\ ReqIdle

NextModels == ListModels

SpecModels == InitModels /\ [][NextModels]_vars

\* the names of ms that belong to tier t: 0 holds "gemini-1.5-pro", 1 holds
\* "gemini-1.5-flash" and not the former, 2 the rest
Tier(x) ==
    CASE Contains("gemini-1.5-pro", x) -> 0
      [] ~Contains("gemini-1.5-pro", x) /\ Contains("gemini-1.5-flash", x) -> 1
      [] OTHER -> 2

RECURSIVE OfTier(_, _)
OfTier(names, t) ==
    IF names = <<>> THEN <<>>
    ELSE (IF Tier(Head(names)) = t THEN <<Head(names)>> ELSE <<>>) \o OfTier(Tail(names), t)

RECURSIVE CapableNames(_)
CapableNames(ms) ==
    IF ms = <<>> THEN <<>>
    ELSE (IF "generateContent" \in Head(ms).methods THEN <<Head(ms).name>> ELSE <<>>)
         \o CapableNames(Tail(ms))

\* C7: when the listing succeeds, the result is the names of the provider's models that
\* support generateContent: tier 0 before tier 1 before tier 2, and each tier in the
\* provider's order; [flash, pro, other] gives [pro, flash, other].
C7_TieredStableOrder ==
    (mpc = "done" /\ ~listFails) =>
        /\ Len(modelsRes) = Len(CapableNames(provModels))
        /\ \A t \in 0..2 : OfTier(modelsRes, t) = OfTier(CapableNames(provModels), t)
        /\ \A i, j \in 1..Len(modelsRes) : i < j => Tier(modelsRes[i]) <= Tier(modelsRes[j])
        /\ ([i \in 1..Len(provModels) |-> provModels[i].name]
               = <<"models/gemini-1.5-flash", "models/gemini-1.5-pro", "models/other-model">>
            => modelsRes
               = <<"models/gemini-1.5-pro", "models/gemini-1.5-flash", "models/other-model">>)

\* C7 witness: a "gemini-1.5-pro" name moved ahead of the "gemini-1.5-flash" name the
\* provider listed before it, and a model without generateContent was left out
C7_Witness ==
    /\ mpc = "done" /\ ~listFails
    /\ provModels = <<[name |-> "models/gemini-1.5-flash",
                       methods |-> {"generateContent", "countTokens"}],
                      [name |-> "models/embedding-001", methods |-> {"embedContent"}],
                      [name |-> "models/gemini-1.5-pro", methods |-> {"generateContent", "countTokens"}]>>
    /\ modelsRes = <<"models/gemini-1.5-pro", "models/gemini-1.5-flash">>

(***************************************************************************)
(* wait_for_files_active and the provider's file store                     *)
(***************************************************************************)

\* file.state.name of an uploaded file
FileStates == {"STATE_UNSPECIFIED", "PROCESSING", "ACTIVE", "FAILED"}

\* how many files one call waits for
MaxFiles == 2

\* nPolls counts the get_file calls of one wait that returned a file, up to MaxPolls,
\* and stays there
MaxPolls == 3

FileName(i) == "files/" \o ToString(i)

\* what follows a get_file that returned state st for file i of n, lines 35-40: the
\* loop sleeps while PROCESSING, raises on any state but ACTIVE, and goes on to the
\* next file (or returns after the last one) on ACTIVE, all without regard to st
PollOutcome_IgnoresFailure(st, i, n) ==
    IF st = "PROCESSING" THEN [pc |-> "sleep", idx |-> i]
    ELSE IF i < n THEN [pc |-> "get", idx |-> i + 1]
    ELSE [pc |-> "returned", idx |-> i]

\* the same with a limit on the polls of a file that stays PROCESSING
PollOutcome_GivesUp(st, i, n) ==
    IF st = "PROCESSING"
    THEN (IF nPolls >= 2 THEN [pc |-> "raised", idx |-> i] ELSE [pc |-> "sleep", idx |-> i])
    ELSE IF st # "ACTIVE" THEN [pc |-> "raised", idx |-> i]
    ELSE IF i < n THEN [pc |-> "get", idx |-> i + 1]
    ELSE [pc |-> "returned", idx |-> i]

\* what follows a get_file that returned state st for file i of n, lines 35-40
PollOutcome(st, i, n) ==
    IF st = "PROCESSING" THEN [pc |-> "sleep", idx |-> i]
    ELSE IF st # "ACTIVE" THEN [pc |-> "raised", idx |-> i]
    ELSE IF i < n THEN [pc |-> "get", idx |-> i + 1]
    ELSE [pc |-> "returned", idx |-> i]

\* genai.get_file(name) raises (the provider cannot be reached, the file is gone): the
\* exception leaves wait_for_files_active, which catches nothing; no state was polled
GetFileRaises ==
    /\ wpc' = "get_raised"
    /\ UNCHANGED <<files, provState, wIdx, lastState, nPolls, seenActive>>

\* file = genai.get_file(name) returns, and the tests of the state it returned
Poll ==
    LET st == provState[files[wIdx]]
        o == PollOutcome(st, wIdx, Len(files))
    IN  /\ lastState' = [lastState EXCEPT ![wIdx] = st]
        /\ nPolls' = IF nPolls < MaxPolls THEN nPolls + 1 ELSE nPolls
        /\ seenActive' = IF st = "ACTIVE" THEN seenActive \cup {files[wIdx]} ELSE seenActive
        /\ wpc' = o.pc
        /\ wIdx' = o.idx
        /\ UNCHANGED <<files, provState>>

\* wait_for_files_active(files) is entered: the for loop takes the first name, or ends
EnterWait ==
    /\ wpc = "call"
    /\ lastState' = [i \in 1..Len(files) |-> "NONE"]
    /\ nPolls' = 0
    /\ IF files = <<>> THEN wpc' = "returned" /\ wIdx' = 0
       ELSE wpc' = "get" /\ wIdx' = 1
    /\ UNCHANGED <<files, provState, seenActive, annotVars, parseVars, modelVars, reqVars>>

\* line 34: the first get_file of a file returns it, or raises
GetFile ==
    /\ wpc = "get"
    /\ (Poll \/ GetFileRaises)
    /\ UNCHANGED <<annotVars, parseVars, modelVars, reqVars>>

\* line 37: time.sleep(2) returns
Sleep ==
    /\ wpc = "sleep"
    /\ wpc' = "reget"
    /\ UNCHANGED <<files, provState, wIdx, lastState, nPolls, seenActive,
                   annotVars, parseVars, modelVars, reqVars>>

\* line 38: the get_file after a sleep returns the file, or raises
GetFileAgain ==
    /\ wpc = "reget"
    /\ (Poll \/ GetFileRaises)
    /\ UNCHANGED <<annotVars, parseVars, modelVars, reqVars>>

\* the provider finishes processing a file: it becomes ACTIVE, or FAILED
ProviderFinishes ==
    /\ wpc \in {"call", "get", "sleep", "reget"}
    /\ \E a \in DOMAIN provState :
          /\ provState[a] = "PROCESSING"
          /\ \E st \in {"ACTIVE", "FAILED"} : provState' = [provState EXCEPT ![a] = st]
    /\ UNCHANGED <<files, wIdx, lastState, wpc, nPolls, seenActive,
                   annotVars, parseVars, modelVars, reqVars>>

WaitInit ==
    /\ \E n \in 0..MaxFiles :
          /\ files = [i \in 1..n |-> FileName(i)]
          /\ provState \in [{FileName(i) : i \in 1..n} -> FileStates]
    /\ wIdx = 0 /\ lastState = <<>> /\ wpc = "call" /\ nPolls = 0 /\ seenActive = {}

InitWait == AnnotIdle /\ ParseIdle /\ ModelsIdle /\ WaitInit /\ ReqIdle

NextWait == EnterWait \/ GetFile \/ Sleep \/ GetFileAgain \/ ProviderFinishes

SpecWait == InitWait /\ [][NextWait]_vars

\* the calling thread keeps running: a get_file call returns, and so does a sleep
FairSpecWait ==
    /\ SpecWait
    /\ WF_vars(EnterWait) /\ WF_vars(GetFile) /\ WF_vars(Sleep) /\ WF_vars(GetFileAgain)

\* the call has returned, has raised "File ... failed to process" (raised), or was left
\* by the exception of a get_file (get_raised)
WaitEnded == wpc \in {"returned", "raised", "get_raised"}

\* C3: wait_for_files_active has returned only if the last state polled of every file
\* was ACTIVE; every file before the current one was last polled ACTIVE; while the last
\* state polled of the current file is PROCESSING the call is in its sleep-and-poll
\* loop or was left there by the exception of a get_file, and has neither returned nor
\* moved on; a file polled in any other state has made the call raise there, the files
\* after it never polled; and the call raises its own error for nothing else, the only
\* other way out being the exception of a get_file, which polled no state.
C3_ReturnsOnlyWhenAllActive ==
    wpc \in {"get", "sleep", "reget", "returned", "raised", "get_raised"} =>
        /\ wpc = "returned" => \A i \in 1..Len(files) : lastState[i] = "ACTIVE"
        /\ \A i \in 1..Len(files) : i < wIdx => lastState[i] = "ACTIVE"
        /\ \A i \in 1..Len(files) :
              lastState[i] = "PROCESSING" =>
                  (wIdx = i /\ wpc \in {"sleep", "reget", "get_raised"})
        /\ \A i \in 1..Len(files) :
              lastState[i] \notin {"NONE", "PROCESSING", "ACTIVE"} =>
                  /\ wpc = "raised" /\ wIdx = i
                  /\ \A j \in 1..Len(files) : j > i => lastState[j] = "NONE"
        /\ wpc = "raised" =>
              (wIdx >= 1 /\ lastState[wIdx] \notin {"NONE", "PROCESSING", "ACTIVE"})
        /\ wpc = "get_raised" => (wIdx >= 1 /\ lastState[wIdx] \in {"NONE", "PROCESSING"})

\* C3 witness: the first file was polled PROCESSING and later ACTIVE, the second one
\* was then polled FAILED and the call raised
C3_Witness ==
    /\ wpc = "raised"
    /\ Len(files) = 2 /\ wIdx = 2
    /\ nPolls >= 3
    /\ lastState = <<"ACTIVE", "FAILED">>

\* C5: a call that has reached a file the provider reports PROCESSING for ever (every
\* get_file of the call answers, and answers PROCESSING for that file) never returns
\* and never raises; and if every file of the call at some time is out of PROCESSING
\* for good, the call ends, by returning or by raising.
C5_NoTimeoutButEnds ==
    /\ \A i \in 1..MaxFiles :
          (/\ <>(wIdx = i)
           /\ [](i <= Len(files) => provState[files[i]] = "PROCESSING")
           /\ [](wpc # "get_raised"))
              => [](~WaitEnded)
    /\ (<>[](\A i \in 1..Len(files) : provState[files[i]] # "PROCESSING")) => <>WaitEnded

\* C5 witness: the call returned, or raised for a state, after polling some file more
\* than once
C5_Witness ==
    /\ wpc \in {"returned", "raised"}
    /\ Len(files) >= 1
    /\ nPolls > Len(files)

(***************************************************************************)
(* generate_sop, run by the "Generate SOP" button handler                  *)
(***************************************************************************)

TextPart(t) == [kind |-> "text", value |-> t]

FilePart(name) == [kind |-> "file", value |-> name]

\* the grave accent of the prompt's code spans, taken by a slice: SANY reads a grave
\* accent as the start of a quotation that runs to the next apostrophe, even in a string
Backtick == SubSeq("`'", 1, 1)

\* prompt_parts up to the video, lines 146-161
InstructionBlock ==
    <<TextPart("You are an expert technical writer and engineer with decades of experience in verifying and documenting maintenance procedures."),
      TextPart("Your task is to analyze the provided video content (visuals and audio) along with the technician's observations to create a comprehensive Standard Operating Procedure (SOP) and Maintenance/Diagnostics Documentation."),
      TextPart("The documentation should be clear, concise, and easy to follow for new technicians."),
      TextPart("Please extract tribal knowledge demonstrated or spoken in the video."),
      TextPart("**Visuals**: For every critical step where a specific visual action is performed (e.g., removing a specific part, checking a gauge), you MUST include a timestamp tag in the exact format "
               \o Backtick \o "[TIMESTAMP: MM:SS]" \o Backtick
               \o ". Place this tag immediately after the step description."),
      TextPart("**Diagrams**: At the end of the SOP, include a Mermaid.js flowchart (using "
               \o Backtick \o Backtick \o Backtick \o "mermaid ... "
               \o Backtick \o Backtick \o Backtick
               \o " block) validating the troubleshooting logic or the process flow."),
      TextPart("Structure the output in Markdown with the following sections:"),
      TextPart("1.  **Title & Objective**: Clear title and the goal of the procedure."),
      TextPart("2.  **Safety Warnings**: Critical safety precautions mentioned or observed (e.g., PPE, lock-out tag-out)."),
      TextPart("3.  **Tools & Materials**: List of tools and parts seen or mentioned."),
      TextPart("4.  **Step-by-Step Instructions**: Chronological steps with detailed descriptions. REMEMBER to include "
               \o Backtick \o "[TIMESTAMP: MM:SS]" \o Backtick \o " for key visual steps."),
      TextPart("5.  **Troubleshooting/Diagnostics**: If the video covers diagnostics, detail the symptoms and the logic for the fix."),
      TextPart("6.  **Tribal Knowledge/Tips**: Specific expert tips or 'gotchas' mentioned by the technician that aren't in standard manuals."),
      TextPart("7.  **Process Flow**: A Mermaid diagram of the procedure."),
      TextPart("\nHere is the video of the procedure:")>>

ClosingDirective == TextPart("\nGenerate the SOP now.")

\* prompt_parts with the image appended before the observations
ComposePrompt_ImageFirst(video_file, observation_text, image_file) ==
    InstructionBlock \o <<FilePart(video_file)>>
    \o (IF image_file # "" THEN <<TextPart("\nAdditional Visual Context:"), FilePart(image_file)>>
        ELSE <<>>)
    \o (IF observation_text # ""
        THEN <<TextPart("\nTechnician's Observations:\n" \o observation_text)>> ELSE <<>>)
    \o <<ClosingDirective>>

\* prompt_parts, lines 146-172; image_file is "" for None
ComposePrompt(video_file, observation_text, image_file) ==
    InstructionBlock \o <<FilePart(video_file)>>
    \o (IF observation_text # ""
        THEN <<TextPart("\nTechnician's Observations:\n" \o observation_text)>> ELSE <<>>)
    \o (IF image_file # "" THEN <<TextPart("\nAdditional Visual Context:"), FilePart(image_file)>>
        ELSE <<>>)
    \o <<ClosingDirective>>

VideoAsset == "files/video"

ImageAsset == "files/image"

\* what the technician may have typed into the observations box
ObservationTexts == {"", "Be careful with the plastic clip."}

\* response.text of the model
ResponseTexts == {"Step 1 [TIMESTAMP: 00:05] done", "No visual steps.",
                  "Open [TIMESTAMP:1:30] close [TIMESTAMP: 00:05]"}

ReqInit ==
    /\ rpc = "clicked" /\ reqImage \in BOOLEAN /\ reqText \in ObservationTexts
    /\ tmpFiles = {} /\ uploaded = {} /\ steps = <<>> /\ promptParts = <<>>
    /\ modelCalls = 0 /\ doc = "" /\ failedStep = ""

\* app.py lines 88-96: the uploads are written to temporary files
SaveUploads ==
    /\ rpc = "clicked"
    /\ tmpFiles' = {"tmp.mp4"} \cup (IF reqImage THEN {"tmp.jpg"} ELSE {})
    /\ rpc' = "upload_video"
    /\ UNCHANGED <<reqImage, reqText, uploaded, steps, promptParts, modelCalls, doc,
                   failedStep, annotVars, parseVars, modelVars, waitVars>>

\* the exception of a step leaves generate_sop and is caught at app.py lines 109-110,
\* which show the error
Raise(step) ==
    /\ rpc' = "error"
    /\ failedStep' = step

\* line 130: upload_to_gemini(video_path): the file is stored, in some state, or the
\* provider call raises
UploadVideo ==
    /\ rpc = "upload_video"
    /\ steps' = Append(steps, "upload_video")
    /\ \/ /\ \E st \in FileStates : provState' = (VideoAsset :> st)
          /\ uploaded' = uploaded \cup {VideoAsset}
          /\ rpc' = "await_video"
          /\ UNCHANGED failedStep
       \/ /\ Raise("upload_video")
          /\ UNCHANGED <<provState, uploaded>>
    /\ UNCHANGED <<reqImage, reqText, tmpFiles, promptParts, modelCalls, doc,
                   files, wIdx, lastState, wpc, nPolls, seenActive,
                   annotVars, parseVars, modelVars>>

\* line 133: wait_for_files_active([video_file]) is called
AwaitVideo ==
    /\ rpc = "await_video"
    /\ steps' = Append(steps, "await_video")
    /\ files' = <<VideoAsset>>
    /\ wpc' = "call"
    /\ rpc' = "awaiting_video"
    /\ UNCHANGED <<reqImage, reqText, tmpFiles, uploaded, promptParts, modelCalls, doc,
                   failedStep, provState, wIdx, lastState, nPolls, seenActive,
                   annotVars, parseVars, modelVars>>

\* the wait for the video returned: lines 136-137 choose the next step
VideoReady ==
    /\ rpc = "awaiting_video"
    /\ wpc = "returned"
    /\ rpc' = IF reqImage THEN "upload_image" ELSE "compose"
    /\ UNCHANGED <<reqImage, reqText, tmpFiles, uploaded, steps, promptParts, modelCalls,
                   doc, failedStep, annotVars, parseVars, modelVars, waitVars>>

\* a wait raised "File ... failed to process", or a get_file of it raised: generate_sop
\* catches neither
WaitFailed ==
    /\ rpc \in {"awaiting_video", "awaiting_image"}
    /\ wpc \in {"raised", "get_raised"}
    /\ Raise(IF rpc = "awaiting_video" THEN "await_video" ELSE "await_image")
    /\ UNCHANGED <<reqImage, reqText, tmpFiles, uploaded, steps, promptParts, modelCalls,
                   doc, annotVars, parseVars, modelVars, waitVars>>

\* line 138: upload_to_gemini(observation_image_path)
UploadImage ==
    /\ rpc = "upload_image"
    /\ steps' = Append(steps, "upload_image")
    /\ \/ /\ \E st \in FileStates : provState' = provState @@ (ImageAsset :> st)
          /\ uploaded' = uploaded \cup {ImageAsset}
          /\ rpc' = "await_image"
          /\ UNCHANGED failedStep
       \/ /\ Raise("upload_image")
          /\ UNCHANGED <<provState, uploaded>>
    /\ UNCHANGED <<reqImage, reqText, tmpFiles, promptParts, modelCalls, doc,
                   files, wIdx, lastState, wpc, nPolls, seenActive,
                   annotVars, parseVars, modelVars>>

\* line 139: wait_for_files_active([image_file]) is called
AwaitImage ==
    /\ rpc = "await_image"
    /\ steps' = Append(steps, "await_image")
    /\ files' = <<ImageAsset>>
    /\ wpc' = "call"
    /\ rpc' = "awaiting_image"
    /\ UNCHANGED <<reqImage, reqText, tmpFiles, uploaded, promptParts, modelCalls, doc,
                   failedStep, provState, wIdx, lastState, nPolls, seenActive,
                   annotVars, parseVars, modelVars>>

\* the wait for the image returned
ImageReady ==
    /\ rpc = "awaiting_image"
    /\ wpc = "returned"
    /\ rpc' = "compose"
    /\ UNCHANGED <<reqImage, reqText, tmpFiles, uploaded, steps, promptParts, modelCalls,
                   doc, failedStep, annotVars, parseVars, modelVars, waitVars>>

\* lines 141-172: the model object and prompt_parts
Compose ==
    /\ rpc = "compose"
    /\ steps' = Append(steps, "compose")
    /\ promptParts' = ComposePrompt(VideoAsset, reqText,
                                    IF ImageAsset \in uploaded THEN ImageAsset ELSE "")
    /\ rpc' = "generate"
    /\ UNCHANGED <<reqImage, reqText, tmpFiles, uploaded, modelCalls, doc, failedStep,
                   annotVars, parseVars, modelVars, waitVars>>

\* generate_content called again after it raised once
Generate_Retries ==
    /\ rpc = "generate"
    /\ steps' = Append(steps, "generate")
    /\ modelCalls' = modelCalls + 1
    /\ \/ /\ text' \in ResponseTexts
          /\ rpc' = "annotate"
          /\ UNCHANGED failedStep
       \/ /\ IF modelCalls = 0 THEN rpc' = "generate" /\ UNCHANGED failedStep
             ELSE Raise("generate")
          /\ UNCHANGED text
    /\ UNCHANGED <<reqImage, reqText, tmpFiles, uploaded, promptParts, doc,
                   video, out1, out2, apc, parseVars, modelVars, waitVars>>

\* line 174: model.generate_content(prompt_parts) answers with a text, or raises
Generate ==
    /\ rpc = "generate"
    /\ steps' = Append(steps, "generate")
    /\ modelCalls' = modelCalls + 1
    /\ \/ /\ text' \in ResponseTexts
          /\ rpc' = "annotate"
          /\ UNCHANGED failedStep
       \/ /\ Raise("generate")
          /\ UNCHANGED text
    /\ UNCHANGED <<reqImage, reqText, tmpFiles, uploaded, promptParts, doc,
                   video, out1, out2, apc, parseVars, modelVars, waitVars>>

\* lines 178-180: the frames are put into the text and generate_sop returns it
AnnotateDoc ==
    /\ rpc = "annotate"
    /\ steps' = Append(steps, "annotate")
    /\ doc' = process_sop_content(text, video)
    /\ rpc' = "returned"
    /\ UNCHANGED <<reqImage, reqText, tmpFiles, uploaded, promptParts, modelCalls,
                   failedStep, annotVars, parseVars, modelVars, waitVars>>

\* app.py lines 101-107: the document is kept for display, the temporary files removed
ShowAndCleanup ==
    /\ rpc = "returned"
    /\ tmpFiles' = (tmpFiles \ {"tmp.mp4"}) \ (IF reqImage THEN {"tmp.jpg"} ELSE {})
    /\ rpc' = "ok"
    /\ UNCHANGED <<reqImage, reqText, uploaded, steps, promptParts, modelCalls, doc,
                   failedStep, annotVars, parseVars, modelVars, waitVars>>

InitRequest ==
    /\ text = "" /\ video \in Videos /\ out1 = "" /\ out2 = "" /\ apc = "off"
    /\ ParseIdle /\ ModelsIdle /\ WaitIdle /\ ReqInit

NextRequest ==
    \/ SaveUploads \/ UploadVideo \/ AwaitVideo \/ VideoReady \/ WaitFailed
    \/ UploadImage \/ AwaitImage \/ ImageReady \/ Compose \/ Generate \/ AnnotateDoc
    \/ ShowAndCleanup
    \/ EnterWait \/ GetFile \/ Sleep \/ GetFileAgain \/ ProviderFinishes

SpecRequest == InitRequest /\ [][NextRequest]_vars

RequestEnded == rpc \in {"ok", "error"}

\* C4: when a Generate request has ended, with a document or with an error, the
\* temporary copies of the uploaded video and image are gone.
C4_TempFilesRemoved == RequestEnded => tmpFiles = {}

\* the steps of generate_sop, in the order of the pipeline
StepOrder(withImage) ==
    <<"upload_video", "await_video">>
    \o (IF withImage THEN <<"upload_image", "await_image">> ELSE <<>>)
    \o <<"compose", "generate", "annotate">>

IsPrefix(p, q) == Len(p) <= Len(q) /\ SubSeq(q, 1, Len(p)) = p

\* C6: the steps taken so far are an initial part of upload video, await video, (upload
\* image, await image,) compose, generate, annotate, none taken twice; the model is
\* called at most once, and only when every uploaded file was polled ACTIVE; a request
\* that ended in an error stopped at the step that failed and has no document, a wait
\* having failed on a file polled in a state neither PROCESSING nor ACTIVE or on a
\* get_file that raised; a request that returned took every step.
C6_LinearNoRetry ==
    rpc # "off" =>
        /\ IsPrefix(steps, StepOrder(reqImage))
        /\ modelCalls <= 1
        /\ modelCalls = 1 <=> (Len(steps) >= 1 /\ "generate" \in {steps[i] : i \in 1..Len(steps)})
        /\ modelCalls = 1 =>
              /\ uploaded = {VideoAsset} \cup (IF reqImage THEN {ImageAsset} ELSE {})
              /\ uploaded \subseteq seenActive
        /\ rpc = "error" =>
              /\ steps # <<>> /\ steps[Len(steps)] = failedStep
              /\ doc = ""
              /\ failedStep \in {"await_video", "await_image"} =>
                    \/ wpc = "raised"
                       /\ lastState[wIdx] \notin {"NONE", "PROCESSING", "ACTIVE"}
                    \/ wpc = "get_raised"
        /\ rpc \in {"returned", "ok"} => (steps = StepOrder(reqImage) /\ doc # "")

\* C6 witness: a request with an image whose image file was polled FAILED ended in an
\* error after four steps, the model never called
C6_Witness ==
    /\ rpc = "error" /\ reqImage
    /\ failedStep = "await_image"
    /\ steps = <<"upload_video", "await_video", "upload_image", "await_image">>
    /\ modelCalls = 0
    /\ VideoAsset \in seenActive

\* the positions of promptParts that hold part p
PositionsOf(p) == {i \in 1..Len(promptParts) : promptParts[i] = p}

\* C9: the composed request starts with the instruction block, the video reference
\* comes right after it, the closing directive is the last part; the observation text
\* block is there iff the observation text is not empty, the image reference iff an
\* image was given; and of the parts present the video comes before the observation
\* text, which comes before the image, which comes before the closing directive.
C9_PromptOrder ==
    promptParts # <<>> =>
        LET n == Len(InstructionBlock)
            obs == PositionsOf(TextPart("\nTechnician's Observations:\n" \o reqText))
            img == PositionsOf(FilePart(ImageAsset))
            vid == PositionsOf(FilePart(VideoAsset))
            last == Len(promptParts)
        IN  /\ SubSeq(promptParts, 1, n) = InstructionBlock
            /\ vid = {n + 1}
            /\ promptParts[last] = ClosingDirective
            /\ PositionsOf(ClosingDirective) = {last}
            /\ Cardinality(obs) = (IF reqText # "" THEN 1 ELSE 0)
            /\ Cardinality(img) = (IF reqImage THEN 1 ELSE 0)
            /\ \A i \in obs : i = n + 2
            /\ \A i \in img : n + 1 < i /\ i < last /\ \A j \in obs : j < i
            /\ last = n + 2 + Cardinality(obs) + 2 * Cardinality(img)

\* C9 witness: a request with observation text and an image was composed
C9_Witness ==
    /\ promptParts # <<>>
    /\ reqText # "" /\ reqImage
    /\ Len(promptParts) = Len(InstructionBlock) + 5

====
